---- MODULE Spec2Model ----
(***************************************************************************)
(* A model of the TuringMaster execution engine (src/App.tsx): the tape    *)
(* store, the transition lookup and application (step), the run            *)
(* controller (start / pause / reset / load, the interval timer armed by   *)
(* the effect), the math translator and the execution log.                 *)
(*                                                                         *)
(* Strings are sequences of one-character strings.  A tape is a function   *)
(* whose domain is the set of keys of the JavaScript object.  Every action *)
(* is one event handler followed by the commit it causes: the batched      *)
(* state updates are applied in order and the interval effect (cleanup,    *)
(* then body) runs when one of its dependencies changed.                   *)
(***************************************************************************)
EXTENDS Integers, Sequences, FiniteSets, TLC

VARIABLES
    tape,               \* Record<number, string>
    headPos,
    currentState,
    status,             \* "IDLE" | "RUNNING" | "PAUSED" | "HALTED"
    stepCount,
    rules,              \* ordered list of TransitionRule
    initialTapeStr,
    initialStateStr,
    mode,               \* "standard" | "math"
    logs,               \* list of {step, state, tapeSnippet}
    finalOutput,        \* << >> is null, <<s>> is the string s
    interpretedResult,  \* record, kind "null" is null
    activeRuleIndex,    \* 0-based index, NULL_INDEX is null
    workerRef,          \* id of the interval the ref holds, NO_TIMER is null
    timers,             \* armed intervals: id -> the step closure they call
    isAiLoading,        \* a generation request is in flight
    edits,              \* rule edits since the last load (bounds the model)
    lastOp              \* the handler that ran last, the operands and the
                        \* operator of a completed math load, and the
                        \* machine states observed so far (history)

vars == <<tape, headPos, currentState, status, stepCount, rules,
          initialTapeStr, initialStateStr, mode, logs, finalOutput,
          interpretedResult, activeRuleIndex, workerRef, timers,
          isAiLoading, edits, lastOp>>

-----------------------------------------------------------------------------
(* Bounds of the model *)

MaxSteps == 3       \* applied steps per run
MaxLog == 4         \* log entries per run
MaxEdits == 1       \* rule edits between two loads
MaxOperandSum == 1  \* largest a + b typed into the math form

-----------------------------------------------------------------------------
(* Constants of the program *)

EMPTY_SYMBOL == "_"
NULL_INDEX == -1
NO_TIMER == 0

Rule(cs, rs, ws, md, ns) ==
    [currentState |-> cs, readSymbol |-> rs, writeSymbol |-> ws,
     moveDirection |-> md, nextState |-> ns]

\* Mutant of BinaryIncrement: the rule that writes the carry on the blank
\* left of the number is missing
BinaryIncrement_dropsCarry ==
    [name |-> "Binary Increment",
     initialTape |-> <<"1", "0", "1", "1">>,
     initialState |-> "start",
     rules |-> <<
        Rule("start", "0", "0", "R", "start"),
        Rule("start", "1", "1", "R", "start"),
        Rule("start", "_", "_", "L", "add"),
        Rule("add", "0", "1", "L", "done"),
        Rule("add", "1", "0", "L", "add") >>]

BinaryIncrement ==
    [name |-> "Binary Increment",
     initialTape |-> <<"1", "0", "1", "1">>,
     initialState |-> "start",
     rules |-> <<
        Rule("start", "0", "0", "R", "start"),
        Rule("start", "1", "1", "R", "start"),
        Rule("start", "_", "_", "L", "add"),
        Rule("add", "0", "1", "L", "done"),
        Rule("add", "1", "0", "L", "add"),
        Rule("add", "_", "1", "R", "done") >>]

\* Mutant of PalindromeDetector: a '1' found where a '0' should match is
\* accepted
PalindromeDetector_acceptsMismatch ==
    [name |-> "Palindrome Detector",
     initialTape |-> <<"1", "0", "0", "1">>,
     initialState |-> "start",
     rules |-> <<
        Rule("start", "0", "_", "R", "have0"),
        Rule("start", "1", "_", "R", "have1"),
        Rule("start", "_", "Y", "N", "accept"),
        Rule("have0", "0", "0", "R", "have0"),
        Rule("have0", "1", "1", "R", "have0"),
        Rule("have0", "_", "_", "L", "match0"),
        Rule("match0", "0", "_", "L", "back"),
        Rule("match0", "1", "Y", "N", "accept"),
        Rule("match0", "_", "Y", "N", "accept"),
        Rule("have1", "0", "0", "R", "have1"),
        Rule("have1", "1", "1", "R", "have1"),
        Rule("have1", "_", "_", "L", "match1"),
        Rule("match1", "1", "_", "L", "back"),
        Rule("match1", "0", "0", "N", "reject"),
        Rule("match1", "_", "Y", "N", "accept"),
        Rule("back", "0", "0", "L", "back"),
        Rule("back", "1", "1", "L", "back"),
        Rule("back", "_", "_", "R", "start") >>]

PalindromeDetector ==
    [name |-> "Palindrome Detector",
     initialTape |-> <<"1", "0", "0", "1">>,
     initialState |-> "start",
     rules |-> <<
        Rule("start", "0", "_", "R", "have0"),
        Rule("start", "1", "_", "R", "have1"),
        Rule("start", "_", "Y", "N", "accept"),
        Rule("have0", "0", "0", "R", "have0"),
        Rule("have0", "1", "1", "R", "have0"),
        Rule("have0", "_", "_", "L", "match0"),
        Rule("match0", "0", "_", "L", "back"),
        Rule("match0", "1", "1", "N", "reject"),
        Rule("match0", "_", "Y", "N", "accept"),
        Rule("have1", "0", "0", "R", "have1"),
        Rule("have1", "1", "1", "R", "have1"),
        Rule("have1", "_", "_", "L", "match1"),
        Rule("match1", "1", "_", "L", "back"),
        Rule("match1", "0", "0", "N", "reject"),
        Rule("match1", "_", "Y", "N", "accept"),
        Rule("back", "0", "0", "L", "back"),
        Rule("back", "1", "1", "L", "back"),
        Rule("back", "_", "_", "R", "start") >>]

\* Mutant of PingPong: no rule for a blank in state left
PingPong_noLeftBlank ==
    [name |-> "Ping Pong",
     initialTape |-> <<"1", "_", "0", "_", "0", "_", "0", "_", "1">>,
     initialState |-> "right",
     rules |-> <<
        Rule("right", "_", "_", "R", "right"),
        Rule("right", "0", "0", "R", "right"),
        Rule("right", "1", "1", "L", "left"),
        Rule("left", "0", "0", "L", "left"),
        Rule("left", "1", "1", "R", "right") >>]

PingPong ==
    [name |-> "Ping Pong",
     initialTape |-> <<"1", "_", "0", "_", "0", "_", "0", "_", "1">>,
     initialState |-> "right",
     rules |-> <<
        Rule("right", "_", "_", "R", "right"),
        Rule("right", "0", "0", "R", "right"),
        Rule("right", "1", "1", "L", "left"),
        Rule("left", "_", "_", "L", "left"),
        Rule("left", "0", "0", "L", "left"),
        Rule("left", "1", "1", "R", "right") >>]

\* Mutant of UnaryAddition: the last rule leaves the '1' it should remove
UnaryAddition_keepsOne ==
    [name |-> "Unary Addition",
     initialTape |-> <<"1", "1", "1", "+", "1", "1">>,
     initialState |-> "start",
     rules |-> <<
        Rule("start", "1", "1", "R", "start"),
        Rule("start", "+", "1", "R", "go_end"),
        Rule("go_end", "1", "1", "R", "go_end"),
        Rule("go_end", "_", "_", "L", "remove_one"),
        Rule("remove_one", "1", "1", "N", "done") >>]

UnaryAddition ==
    [name |-> "Unary Addition",
     initialTape |-> <<"1", "1", "1", "+", "1", "1">>,
     initialState |-> "start",
     rules |-> <<
        Rule("start", "1", "1", "R", "start"),
        Rule("start", "+", "1", "R", "go_end"),
        Rule("go_end", "1", "1", "R", "go_end"),
        Rule("go_end", "_", "_", "L", "remove_one"),
        Rule("remove_one", "1", "_", "N", "done") >>]

\* Mutant of UnarySubtraction: erase_a steps over the '1' of A instead of
\* erasing it
UnarySubtraction_keepsA ==
    [name |-> "Unary Subtraction",
     initialTape |-> <<"1", "1", "1", "-", "1", "1">>,
     initialState |-> "start",
     rules |-> <<
        Rule("start", "1", "1", "R", "start"),
        Rule("start", "-", "-", "R", "find_b"),
        Rule("start", "_", "_", "N", "done"),
        Rule("find_b", "1", "1", "R", "find_b"),
        Rule("find_b", "_", "_", "L", "erase_b"),
        Rule("erase_b", "1", "_", "L", "find_a_tail"),
        Rule("erase_b", "-", "_", "N", "done"),
        Rule("find_a_tail", "1", "1", "L", "find_a_tail"),
        Rule("find_a_tail", "-", "-", "L", "erase_a"),
        Rule("find_a_tail", "_", "_", "L", "find_a_tail"),
        Rule("erase_a", "1", "1", "R", "reset_start"),
        Rule("erase_a", "_", "_", "L", "erase_a"),
        Rule("reset_start", "_", "_", "R", "reset_start"),
        Rule("reset_start", "-", "-", "R", "find_b"),
        Rule("reset_start", "1", "1", "R", "reset_start") >>]

UnarySubtraction ==
    [name |-> "Unary Subtraction",
     initialTape |-> <<"1", "1", "1", "-", "1", "1">>,
     initialState |-> "start",
     rules |-> <<
        Rule("start", "1", "1", "R", "start"),
        Rule("start", "-", "-", "R", "find_b"),
        Rule("start", "_", "_", "N", "done"),
        Rule("find_b", "1", "1", "R", "find_b"),
        Rule("find_b", "_", "_", "L", "erase_b"),
        Rule("erase_b", "1", "_", "L", "find_a_tail"),
        Rule("erase_b", "-", "_", "N", "done"),
        Rule("find_a_tail", "1", "1", "L", "find_a_tail"),
        Rule("find_a_tail", "-", "-", "L", "erase_a"),
        Rule("find_a_tail", "_", "_", "L", "find_a_tail"),
        Rule("erase_a", "1", "_", "R", "reset_start"),
        Rule("erase_a", "_", "_", "L", "erase_a"),
        Rule("reset_start", "_", "_", "R", "reset_start"),
        Rule("reset_start", "-", "-", "R", "find_b"),
        Rule("reset_start", "1", "1", "R", "reset_start") >>]

PRESETS ==
    <<BinaryIncrement, PalindromeDetector, PingPong, UnaryAddition,
      UnarySubtraction>>

\* PRESETS.find(p => p.name === presetName): << >> when there is none
FindPreset(presetName) ==
    LET hits == {i \in 1..Len(PRESETS) : PRESETS[i].name = presetName}
    IN  IF hits = {} THEN << >>
        ELSE <<PRESETS[CHOOSE i \in hits : \A j \in hits : i <= j]>>

\* The options of the algorithm select: the presets whose name has no "Unary"
SelectablePresets == {"Binary Increment", "Palindrome Detector", "Ping Pong"}

-----------------------------------------------------------------------------
(* Tape store *)

EmptyTape == [p \in {} |-> EMPTY_SYMBOL]

\* t[pos] || EMPTY_SYMBOL
ReadCell(t, pos) ==
    IF pos \in DOMAIN t /\ t[pos] # "" THEN t[pos] ELSE EMPTY_SYMBOL

\* Mutant of parseTapeString: the characters are laid out from the end
parseTapeString_fromEnd(str) ==
    [idx \in 0..(Len(str) - 1) |-> str[Len(str) - idx]]

\* Mutant of parseTapeString: positions counted from 1
parseTapeString_oneBased(str) == [idx \in 1..Len(str) |-> str[idx]]

parseTapeString(str) == [idx \in 0..(Len(str) - 1) |-> str[idx + 1]]

RECURSIVE TrimLeft(_)
TrimLeft(s) ==
    IF s # << >> /\ Head(s) = EMPTY_SYMBOL THEN TrimLeft(Tail(s)) ELSE s

RECURSIVE TrimRight(_)
TrimRight(s) ==
    IF s # << >> /\ s[Len(s)] = EMPTY_SYMBOL
    THEN TrimRight(SubSeq(s, 1, Len(s) - 1))
    ELSE s

\* Mutant of TrimBlanks: only the leading blanks are removed
TrimBlanks_leftOnly(s) == TrimLeft(s)

\* Mutant of TrimBlanks: only the trailing blanks are removed
TrimBlanks_rightOnly(s) == TrimRight(s)

\* str.replace(/^_+|_+$/g, '')
TrimBlanks(s) == TrimRight(TrimLeft(s))

\* Mutant of getTapeString: the blank runs at the ends are not trimmed
getTapeString_untrimmed(t) ==
    IF DOMAIN t = {} THEN << >>
    ELSE LET min == CHOOSE i \in DOMAIN t : \A j \in DOMAIN t : i <= j
             max == CHOOSE i \in DOMAIN t : \A j \in DOMAIN t : j <= i
         IN  [k \in 1..(max - min + 1) |-> ReadCell(t, min + k - 1)]

getTapeString(t) ==
    IF DOMAIN t = {} THEN << >>
    ELSE LET min == CHOOSE i \in DOMAIN t : \A j \in DOMAIN t : i <= j
             max == CHOOSE i \in DOMAIN t : \A j \in DOMAIN t : j <= i
             str == [k \in 1..(max - min + 1) |-> ReadCell(t, min + k - 1)]
         IN  TrimBlanks(str)

\* Mutant of WriteCell: a blank write is stored like any other symbol
WriteCell_keepBlank(t, pos, sym) ==
    [p \in DOMAIN t \cup {pos} |-> IF p = pos THEN sym ELSE t[p]]

\* The functional update of the tape inside step
WriteCell(t, pos, sym) ==
    IF sym = EMPTY_SYMBOL
    THEN [p \in DOMAIN t \ {pos} |-> t[p]]
    ELSE [p \in DOMAIN t \cup {pos} |-> IF p = pos THEN sym ELSE t[p]]

-----------------------------------------------------------------------------
(* Transition lookup *)

RuleMatches(r, state, sym) == r.currentState = state /\ r.readSymbol = sym

\* Mutant of findIndex: the last match instead of the first
findIndex_last(rs, state, sym) ==
    LET hits == {i \in 1..Len(rs) : RuleMatches(rs[i], state, sym)}
    IN  IF hits = {} THEN -1
        ELSE (CHOOSE i \in hits : \A j \in hits : j <= i) - 1

\* rs.findIndex(r => r.currentState === state && r.readSymbol === sym):
\* the 0-based index of the first match, -1 when there is none
findIndex(rs, state, sym) ==
    LET hits == {i \in 1..Len(rs) : RuleMatches(rs[i], state, sym)}
    IN  IF hits = {} THEN -1
        ELSE (CHOOSE i \in hits : \A j \in hits : i <= j) - 1

\* The head after setHeadPos(p => p - 1) / setHeadPos(p => p + 1) / nothing
MoveHead(pos, dir) ==
    IF dir = "L" THEN pos - 1 ELSE IF dir = "R" THEN pos + 1 ELSE pos

-----------------------------------------------------------------------------
(* Interpretation of the final tape *)

Contains(str, ch) == \E i \in 1..Len(str) : str[i] = ch

CountOnes(str) == Cardinality({i \in 1..Len(str) : str[i] = "1"})

InterpNull == [kind |-> "null", count |-> 0, raw |-> << >>]
InterpAccepted == [kind |-> "Accepted (True)", count |-> 0, raw |-> << >>]
InterpRejected == [kind |-> "Rejected (False)", count |-> 0, raw |-> << >>]
InterpDecimal(n) == [kind |-> "Decimal Value", count |-> n, raw |-> << >>]
InterpRaw(str) == [kind |-> "Raw Result", count |-> 0, raw |-> str]

\* Mutant of IsUnary: the test for the empty string is missing
IsUnary_nonEmpty(str) ==
    /\ str # << >>
    /\ \A i \in 1..Len(str) : str[i] \in {"1", EMPTY_SYMBOL}

\* finalStr === '' || finalStr.match(/^[1_]+$/)
IsUnary(str) == \A i \in 1..Len(str) : str[i] \in {"1", EMPTY_SYMBOL}

\* Mutant of Interpret: in standard mode 'N' is looked for before 'Y'
Interpret_rejectFirst(m, finalStr) ==
    IF m = "math"
    THEN IF IsUnary(finalStr) THEN InterpDecimal(CountOnes(finalStr))
         ELSE InterpRaw(finalStr)
    ELSE IF Contains(finalStr, "N") THEN InterpRejected
         ELSE IF Contains(finalStr, "Y") THEN InterpAccepted
         ELSE InterpNull

Interpret(m, finalStr) ==
    IF m = "math"
    THEN IF IsUnary(finalStr) THEN InterpDecimal(CountOnes(finalStr))
         ELSE InterpRaw(finalStr)
    ELSE IF Contains(finalStr, "Y") THEN InterpAccepted
         ELSE IF Contains(finalStr, "N") THEN InterpRejected
         ELSE InterpNull

-----------------------------------------------------------------------------
(* The interval timer *)

\* What the step callback created by the current render has captured
StepClosure ==
    [tape |-> tape, headPos |-> headPos, currentState |-> currentState,
     rules |-> rules, stepCount |-> stepCount, mode |-> mode]

NoTimers == [i \in {} |-> StepClosure]

ClearInterval(tm, id) == [i \in DOMAIN tm \ {id} |-> tm[i]]

\* window.setInterval returns an id no live or remembered interval has
FreshId(tm, ref) ==
    CHOOSE i \in 1..(Cardinality(DOMAIN tm) + 2) : i \notin DOMAIN tm /\ i # ref

\* Mutant of StopTimer: the ref is nulled but the interval is not cleared
StopTimer_keepsInterval(ref, tm) == [ref |-> NO_TIMER, timers |-> tm]

\* stopMachine, the timer part: clear the interval the ref holds, null the ref
StopTimer(ref, tm) ==
    IF ref # NO_TIMER
    THEN [ref |-> NO_TIMER, timers |-> ClearInterval(tm, ref)]
    ELSE [ref |-> ref, timers |-> tm]

\* Mutant of PausedIfRunning: setStatus('PAUSED') whatever the status
PausedIfRunning_always(st) == "PAUSED"

\* Mutant of PausedIfRunning: every status but HALTED becomes PAUSED
PausedIfRunning_unlessHalted(st) == IF st = "HALTED" THEN st ELSE "PAUSED"

\* stopMachine, the status part: setStatus(prev => prev === 'RUNNING' ? 'PAUSED' : prev)
PausedIfRunning(st) == IF st = "RUNNING" THEN "PAUSED" ELSE st

\* Mutant of HaltStatus: stopMachine computes the status from the status of
\* the render instead of the pending value, and overwrites HALTED
HaltStatus_closure(st) == IF st = "RUNNING" THEN "PAUSED" ELSE st

\* The status a halting step commits: setStatus('HALTED') and then the
\* functional update of stopMachine, applied to the pending value; st is the
\* status of the render, which neither update reads
HaltStatus(st) == PausedIfRunning("HALTED")

\* Mutant of RunEffect: the body arms an interval only when the ref is
\* empty, and the cleanup does not empty it
RunEffect_armsOnce(h, changed, st, closure) ==
    IF ~changed THEN h
    ELSE LET cleaned == IF h.ref # NO_TIMER
                        THEN ClearInterval(h.timers, h.ref) ELSE h.timers
         IN  IF st = "RUNNING" /\ h.ref = NO_TIMER
             THEN LET id == FreshId(cleaned, h.ref)
                  IN  [ref |-> id,
                       timers |-> [i \in DOMAIN cleaned \cup {id} |->
                                     IF i = id THEN closure ELSE cleaned[i]]]
             ELSE [ref |-> h.ref, timers |-> cleaned]

\* Mutant of RunEffect: the body arms an interval whatever the status
RunEffect_alwaysArm(h, changed, st, closure) ==
    IF ~changed THEN h
    ELSE LET cleaned == IF h.ref # NO_TIMER
                        THEN ClearInterval(h.timers, h.ref) ELSE h.timers
             id == FreshId(cleaned, h.ref)
         IN  [ref |-> id,
              timers |-> [i \in DOMAIN cleaned \cup {id} |->
                            IF i = id THEN closure ELSE cleaned[i]]]

\* Mutant of RunEffect: the effect has no cleanup, so the interval of the
\* previous run is still armed when the body arms the next one
RunEffect_noCleanup(h, changed, st, closure) ==
    IF ~changed THEN h
    ELSE IF st = "RUNNING"
         THEN LET id == FreshId(h.timers, h.ref)
              IN  [ref |-> id,
                   timers |-> [i \in DOMAIN h.timers \cup {id} |->
                                 IF i = id THEN closure ELSE h.timers[i]]]
         ELSE h

\* The interval effect of a commit: when a dependency changed, the cleanup of
\* the previous run, then the body, which arms an interval calling `closure`
\* when the committed status is RUNNING
RunEffect(h, changed, st, closure) ==
    IF ~changed THEN h
    ELSE LET cleaned == IF h.ref # NO_TIMER
                        THEN ClearInterval(h.timers, h.ref) ELSE h.timers
         IN  IF st = "RUNNING"
             THEN LET id == FreshId(cleaned, h.ref)
                  IN  [ref |-> id,
                       timers |-> [i \in DOMAIN cleaned \cup {id} |->
                                     IF i = id THEN closure ELSE cleaned[i]]]
             ELSE [ref |-> h.ref, timers |-> cleaned]

\* Mutant of DepsChanged: step is not among the dependencies of the effect,
\* which then runs again only when status changed
DepsChanged_statusOnly(newObjects) == status' # status

\* The dependencies of the effect are status, speed and step; step is rebuilt
\* when tape, headPos, currentState, rules, stepCount or mode changed.
\* newObjects: the handler stored a new tape or rules object
DepsChanged(newObjects) ==
    \/ newObjects
    \/ status' # status
    \/ headPos' # headPos
    \/ currentState' # currentState
    \/ stepCount' # stepCount
    \/ mode' # mode

\* The commit that ends a handler; h is the ref and the timers the handler left
Commit(h, newObjects) ==
    LET e == RunEffect(h, DepsChanged(newObjects), status', StepClosure')
    IN  /\ workerRef' = e.ref
        /\ timers' = e.timers

\* The machine as one observes it after Len(logs) executions of step
Observation ==
    [k |-> Len(logs), tape |-> tape, headPos |-> headPos,
     currentState |-> currentState, status |-> status,
     stepCount |-> stepCount]

\* The handler that ran last was a step, a reset or a completed load: the
\* state is the one a step or a (re)start of the program left
AfterStepOrLoad ==
    /\ lastOp.op \in {"step", "reset", "loadPreset", "mathLoad", "aiLoad"}
    /\ lastOp.outcome # "threw"

NotTracking == [on |-> FALSE, at |-> {}]
Tracking == [on |-> TRUE, at |-> {}]

\* The record of the handler that runs now; when the history is tracking,
\* the state a step or load had left is added to the observations
Op(name, src, outcome) ==
    [op |-> name, src |-> src, outcome |-> outcome, from |-> status,
     input |-> << >>,
     seen |-> IF lastOp.seen.on /\ AfterStepOrLoad
              THEN [on |-> TRUE, at |-> lastOp.seen.at \cup {Observation}]
              ELSE lastOp.seen]

-----------------------------------------------------------------------------
(* Inputs of the model *)

\* Programs the rule-generation collaborator returns
GenDuplicate ==
    [initialTape |-> <<"0", "1">>,
     initialState |-> "s",
     rules |-> <<
        Rule("s", "0", "1", "R", "s"),
        Rule("s", "0", "0", "L", "t"),
        Rule("s", "1", "_", "N", "t"),
        Rule("t", "_", "1", "L", "u") >>]

GenNoRules ==
    [initialTape |-> <<"1">>, initialState |-> "start", rules |-> << >>]

GenPrograms == {GenDuplicate, GenNoRules}

\* Rows typed into the edit form of the rule table
EditForms == {Rule("done", "_", "1", "N", "done")}

\* Operand pairs typed into the math form, after parseInt(x) || 0
MathOperands ==
    {ab \in ((-1)..MaxOperandSum) \X ((-1)..MaxOperandSum) :
        ab[1] + ab[2] <= MaxOperandSum}

-----------------------------------------------------------------------------
(* Initial state: the useState / useRef initial values, no interval armed *)

Init ==
    /\ tape = EmptyTape
    /\ headPos = 0
    /\ currentState = "start"
    /\ status = "IDLE"
    /\ stepCount = 0
    /\ rules = << >>
    /\ initialTapeStr = << >>
    /\ initialStateStr = "start"
    /\ mode = "standard"
    /\ logs = << >>
    /\ finalOutput = << >>
    /\ interpretedResult = InterpNull
    /\ activeRuleIndex = NULL_INDEX
    /\ workerRef = NO_TIMER
    /\ timers = NoTimers
    /\ isAiLoading = FALSE
    /\ edits = 0
    /\ lastOp = [op |-> "init", src |-> "none", outcome |-> "none",
                 from |-> "IDLE", input |-> << >>, seen |-> NotTracking]

-----------------------------------------------------------------------------
(* Reset and load *)

\* Mutant of ResetTo: the head is left where the run took it
ResetTo_keepsHead(tapeStr, stateStr) ==
    /\ tape' = parseTapeString(tapeStr)
    /\ headPos' = headPos
    /\ currentState' = stateStr
    /\ status' = "IDLE"
    /\ stepCount' = 0
    /\ activeRuleIndex' = NULL_INDEX
    /\ logs' = << >>
    /\ finalOutput' = << >>
    /\ interpretedResult' = InterpNull
    /\ Commit(StopTimer(workerRef, timers), TRUE)

\* Mutant of ResetTo: the log is not emptied
ResetTo_keepsLog(tapeStr, stateStr) ==
    /\ tape' = parseTapeString(tapeStr)
    /\ headPos' = 0
    /\ currentState' = stateStr
    /\ status' = "IDLE"
    /\ stepCount' = 0
    /\ activeRuleIndex' = NULL_INDEX
    /\ logs' = logs
    /\ finalOutput' = << >>
    /\ interpretedResult' = InterpNull
    /\ Commit(StopTimer(workerRef, timers), TRUE)

\* resetMachine(tapeStr, stateStr), then the commit.  The caller has set
\* rules', mode' and the initial strings.
ResetTo(tapeStr, stateStr) ==
    /\ tape' = parseTapeString(tapeStr)
    /\ headPos' = 0
    /\ currentState' = stateStr
    /\ status' = "IDLE"
    /\ stepCount' = 0
    /\ activeRuleIndex' = NULL_INDEX
    /\ logs' = << >>
    /\ finalOutput' = << >>
    /\ interpretedResult' = InterpNull
    /\ Commit(StopTimer(workerRef, timers), TRUE)

\* The Reset button: resetMachine() with the defaults of the current render
resetMachine ==
    /\ UNCHANGED <<rules, initialTapeStr, initialStateStr, mode, isAiLoading, edits>>
    /\ ResetTo(initialTapeStr, initialStateStr)
    /\ lastOp' = Op("reset", "user", "done")

loadPreset(presetName) ==
    /\ mode = "standard"
    /\ LET found == FindPreset(presetName)
       IN  /\ found # << >>
           /\ rules' = found[1].rules
           /\ initialTapeStr' = found[1].initialTape
           /\ initialStateStr' = found[1].initialState
           /\ edits' = 0
           /\ UNCHANGED <<mode, isAiLoading>>
           /\ ResetTo(found[1].initialTape, found[1].initialState)
    /\ lastOp' = Op("loadPreset", "user", "done")

\* Mutant of Repeat1: one '1' too many
Repeat1_oneMore(n) == [i \in 1..(n + 1) |-> "1"]

\* '1'.repeat(n)
Repeat1(n) == [i \in 1..n |-> "1"]

handleMathTranslate(a, b, mathOp) ==
    /\ mode = "math"
    /\ IF a < 0 \/ b < 0
       THEN \* '1'.repeat of a negative count throws before any update
            /\ UNCHANGED <<tape, headPos, currentState, status, stepCount,
                           rules, initialTapeStr, initialStateStr, mode, logs,
                           finalOutput, interpretedResult, activeRuleIndex,
                           workerRef, timers, isAiLoading, edits>>
            /\ lastOp' = Op("mathLoad", "user", "threw")
       ELSE LET newTapeStr == Repeat1(a) \o <<mathOp>> \o Repeat1(b)
                found == FindPreset(IF mathOp = "+" THEN "Unary Addition"
                                    ELSE "Unary Subtraction")
            IN  /\ found # << >>
                /\ rules' = found[1].rules
                /\ initialTapeStr' = newTapeStr
                /\ initialStateStr' = found[1].initialState
                /\ mode' = "math"
                /\ edits' = 0
                /\ UNCHANGED isAiLoading
                /\ ResetTo(newTapeStr, found[1].initialState)
                /\ lastOp' = [Op("mathLoad", "user", "done")
                                 EXCEPT !.input = <<a, b, mathOp>>]

\* The Generate button
handleAiGenerate ==
    /\ ~isAiLoading
    /\ isAiLoading' = TRUE
    /\ UNCHANGED <<tape, headPos, currentState, status, stepCount, rules,
                   initialTapeStr, initialStateStr, mode, logs, finalOutput,
                   interpretedResult, activeRuleIndex, workerRef, timers,
                   edits>>
    /\ lastOp' = Op("aiRequest", "user", "done")

\* generateTuringRules resolved
AiResolved(result) ==
    /\ isAiLoading
    /\ isAiLoading' = FALSE
    /\ rules' = result.rules
    /\ initialTapeStr' = result.initialTape
    /\ initialStateStr' = result.initialState
    /\ mode' = "standard"
    /\ edits' = 0
    /\ ResetTo(result.initialTape, result.initialState)
    /\ lastOp' = Op("aiLoad", "collaborator", "done")

\* Mutant of AiRejected: the rule list is emptied before the failure shows
AiRejected_partial ==
    /\ isAiLoading
    /\ isAiLoading' = FALSE
    /\ rules' = << >>
    /\ UNCHANGED <<tape, headPos, currentState, status, stepCount,
                   initialTapeStr, initialStateStr, mode, logs, finalOutput,
                   interpretedResult, activeRuleIndex, workerRef, timers,
                   edits>>
    /\ lastOp' = Op("aiLoad", "collaborator", "threw")

\* generateTuringRules threw: no text, unparsable text, or a failed request
AiRejected ==
    /\ isAiLoading
    /\ isAiLoading' = FALSE
    /\ UNCHANGED <<tape, headPos, currentState, status, stepCount, rules,
                   initialTapeStr, initialStateStr, mode, logs, finalOutput,
                   interpretedResult, activeRuleIndex, workerRef, timers,
                   edits>>
    /\ lastOp' = Op("aiLoad", "collaborator", "threw")

-----------------------------------------------------------------------------
(* step *)

\* Mutant of LogEntry: the entry numbers the steps from 0
LogEntry_fromZero(s) ==
    [step |-> s.stepCount, state |-> s.currentState,
     tapeSnippet |-> getTapeString(s.tape)]

LogEntry(s) ==
    [step |-> s.stepCount + 1, state |-> s.currentState,
     tapeSnippet |-> getTapeString(s.tape)]

\* Mutant of Increment: the updater is applied twice
Increment_twice(c) == c + 2

\* setStepCount(c => c + 1)
Increment(c) == c + 1

\* One call of the step callback whose closure is s.  The lookup, the log
\* entry and the cell written read the closure; the tape, the head and the
\* step count are updated functionally from the committed values.
\* maxSteps and maxLog bound the exploration: the applied steps and the log
\* entries of a run.
StepWithin(s, src, maxSteps, maxLog) ==
    LET currentSym == ReadCell(s.tape, s.headPos)
        ruleIndex == findIndex(s.rules, s.currentState, currentSym)
    IN  /\ Len(logs) < maxLog
        /\ logs' = Append(logs, LogEntry(s))
        /\ UNCHANGED <<rules, initialTapeStr, initialStateStr, mode,
                       isAiLoading, edits>>
        /\ IF ruleIndex = -1
           THEN \* setStatus('HALTED'), then stopMachine()
                /\ status' = HaltStatus(status)
                /\ finalOutput' = <<getTapeString(s.tape)>>
                /\ interpretedResult' = Interpret(s.mode, getTapeString(s.tape))
                /\ UNCHANGED <<tape, headPos, currentState, stepCount,
                               activeRuleIndex>>
                /\ Commit(StopTimer(workerRef, timers), FALSE)
                /\ lastOp' = Op("step", src, "halted")
           ELSE LET rule == s.rules[ruleIndex + 1]
                IN  /\ stepCount < maxSteps
                    /\ activeRuleIndex' = ruleIndex
                    /\ tape' = WriteCell(tape, s.headPos, rule.writeSymbol)
                    /\ currentState' = rule.nextState
                    /\ headPos' = MoveHead(headPos, rule.moveDirection)
                    /\ stepCount' = Increment(stepCount)
                    /\ UNCHANGED <<status, finalOutput, interpretedResult>>
                    /\ Commit([ref |-> workerRef, timers |-> timers], TRUE)
                    /\ lastOp' = Op("step", src, "applied")

Step(s, src) == StepWithin(s, src, MaxSteps, MaxLog)

\* The Step Forward button, disabled while status is RUNNING
StepButtonEnabled(st) == st # "RUNNING"

ManualStep ==
    /\ StepButtonEnabled(status)
    /\ Step(StepClosure, "manual")

\* An armed interval fires and calls the step callback it was given
TimerFire ==
    \E id \in DOMAIN timers : Step(timers[id], "timer")

-----------------------------------------------------------------------------
(* Start and pause: one button, PAUSE while RUNNING and START otherwise *)

startMachine ==
    /\ status # "RUNNING"
    /\ status' = "RUNNING"
    /\ UNCHANGED <<tape, headPos, currentState, stepCount, rules,
                   initialTapeStr, initialStateStr, mode, logs, finalOutput,
                   interpretedResult, activeRuleIndex, isAiLoading,
                   edits>>
    /\ Commit([ref |-> workerRef, timers |-> timers], FALSE)
    /\ lastOp' = Op("start", "user", "done")

stopMachine ==
    /\ status = "RUNNING"
    /\ status' = PausedIfRunning(status)
    /\ UNCHANGED <<tape, headPos, currentState, stepCount, rules,
                   initialTapeStr, initialStateStr, mode, logs, finalOutput,
                   interpretedResult, activeRuleIndex, isAiLoading,
                   edits>>
    /\ Commit(StopTimer(workerRef, timers), FALSE)
    /\ lastOp' = Op("pause", "user", "done")

-----------------------------------------------------------------------------
(* The mode buttons and the rule table *)

setMode(m) ==
    /\ mode' = m
    /\ UNCHANGED <<tape, headPos, currentState, status, stepCount, rules,
                   initialTapeStr, initialStateStr, logs, finalOutput,
                   interpretedResult, activeRuleIndex, isAiLoading,
                   edits>>
    /\ Commit([ref |-> workerRef, timers |-> timers], FALSE)
    /\ lastOp' = Op("setMode", "user", "done")

\* Mutant of EditRules: storing the edited list also rewinds the step count
EditRules_rewinds(newRules, name) ==
    /\ edits < MaxEdits
    /\ edits' = edits + 1
    /\ rules' = newRules
    /\ stepCount' = 0
    /\ UNCHANGED <<tape, headPos, currentState, status,
                   initialTapeStr, initialStateStr, mode, logs, finalOutput,
                   interpretedResult, activeRuleIndex, isAiLoading>>
    /\ Commit([ref |-> workerRef, timers |-> timers], TRUE)
    /\ lastOp' = Op(name, "user", "done")

\* setRules(newRules) from the table, then the commit
EditRules(newRules, name) ==
    /\ edits < MaxEdits
    /\ edits' = edits + 1
    /\ rules' = newRules
    /\ UNCHANGED <<tape, headPos, currentState, status, stepCount,
                   initialTapeStr, initialStateStr, mode, logs, finalOutput,
                   interpretedResult, activeRuleIndex, isAiLoading>>
    /\ Commit([ref |-> workerRef, timers |-> timers], TRUE)
    /\ lastOp' = Op(name, "user", "done")

\* The row of the table the edits of the model act on: the first one
EditableRows == IF rules = << >> THEN {} ELSE {1}

\* newRules.splice(index, 1); rows are counted from 1 here
handleDelete(index) ==
    EditRules(SubSeq(rules, 1, index - 1) \o SubSeq(rules, index + 1, Len(rules)),
              "deleteRule")

saveEdit(index, editForm) ==
    EditRules([rules EXCEPT ![index] = editForm], "saveEdit")

addNewRule ==
    EditRules(Append(rules, Rule("new_state", "0", "1", "R", "new_state")),
              "addRule")

-----------------------------------------------------------------------------

Next ==
    \/ resetMachine
    \/ \E presetName \in SelectablePresets : loadPreset(presetName)
    \/ \E ab \in MathOperands, mathOp \in {"+", "-"} :
          handleMathTranslate(ab[1], ab[2], mathOp)
    \/ handleAiGenerate
    \/ \E result \in GenPrograms : AiResolved(result)
    \/ AiRejected
    \/ ManualStep
    \/ TimerFire
    \/ startMachine
    \/ stopMachine
    \/ \E m \in {"standard", "math"} : setMode(m)
    \/ \E index \in EditableRows : handleDelete(index)
    \/ \E index \in EditableRows, editForm \in EditForms : saveEdit(index, editForm)
    \/ addNewRule

Spec == Init /\ [][Next]_vars

-----------------------------------------------------------------------------
(* Vocabulary of the properties *)

\* The handler that ran last replaced the machine: a reset or a completed load
IsLoad(l) ==
    /\ l.op \in {"reset", "loadPreset", "mathLoad", "aiLoad"}
    /\ l.outcome = "done"

IsStep(l) == l.op = "step"

\* Some rule of the committed list matches the committed state and the
\* symbol under the committed head
Matching ==
    {i \in 1..Len(rules) :
        /\ rules[i].currentState = currentState
        /\ rules[i].readSymbol =
             (IF headPos \in DOMAIN tape /\ tape[headPos] # ""
              THEN tape[headPos] ELSE "_")}

NoTimerArmed == DOMAIN timers = {}

-----------------------------------------------------------------------------
(* Properties *)

\* C1: a step that finds a matching rule leaves exactly this state: the cell
\* at the head before the step holds the rule's writeSymbol (no cell when
\* that is blank), every other cell is as before, currentState is the rule's
\* nextState, the head moved by -1 (L), +1 (R) or 0 (N), and stepCount grew
\* by exactly 1.
C1_StepApplied ==
    [][(IsStep(lastOp') /\ Matching # {}) =>
        LET rule == rules[activeRuleIndex' + 1]
        IN  /\ activeRuleIndex' + 1 \in 1..Len(rules)
            /\ IF rule.writeSymbol = "_"
               THEN headPos \notin DOMAIN tape'
               ELSE headPos \in DOMAIN tape' /\ tape'[headPos] = rule.writeSymbol
            /\ DOMAIN tape' \ {headPos} = DOMAIN tape \ {headPos}
            /\ \A p \in DOMAIN tape \ {headPos} : tape'[p] = tape[p]
            /\ currentState' = rule.nextState
            /\ headPos' - headPos =
                 (CASE rule.moveDirection = "L" -> -1
                    [] rule.moveDirection = "R" -> 1
                    [] rule.moveDirection = "N" -> 0)
            /\ stepCount' = stepCount + 1]_vars

\* C1 witness: a timer-driven step has applied a rule that writes blank
C1_Witness ==
    /\ IsStep(lastOp) /\ lastOp.outcome = "applied" /\ lastOp.src = "timer"
    /\ rules[activeRuleIndex + 1].writeSymbol = "_"
    /\ rules[activeRuleIndex + 1].moveDirection = "N"

\* C2: the rule a step applies is the lowest-index rule whose currentState
\* and readSymbol equal the machine's state and the symbol under the head
\* (blank for an absent cell), also when several rules match.
C2_FirstMatch ==
    [][(IsStep(lastOp') /\ Matching # {}) =>
        LET k == activeRuleIndex' + 1
        IN  /\ k \in Matching
            /\ \A j \in Matching : k <= j
            /\ currentState' = rules[k].nextState
            /\ (rules[k].moveDirection = "R" => headPos' = headPos + 1)
            /\ (rules[k].moveDirection = "L" => headPos' = headPos - 1)
            /\ (rules[k].writeSymbol # "_" => tape'[headPos] = rules[k].writeSymbol)]_vars

\* C2 witness: the first step of the generated program whose rules 1 and 2
\* both match (s, 0) has applied rule 1 (index 0)
C2_Witness ==
    /\ IsStep(lastOp) /\ lastOp.outcome = "applied"
    /\ rules = GenDuplicate.rules
    /\ stepCount = 1 /\ activeRuleIndex = 0
    /\ currentState = "s" /\ headPos = 1

\* C3: a step that finds no matching rule sets status to HALTED and leaves
\* tape, headPosition, currentState and stepCount unchanged; a freshly
\* loaded machine with no rule for its initial (state, symbol) is HALTED
\* after its first step with stepCount 0.
C3_HaltFrame ==
    [][(IsStep(lastOp') /\ Matching = {}) =>
        /\ status' = "HALTED"
        /\ tape' = tape /\ headPos' = headPos
        /\ currentState' = currentState /\ stepCount' = stepCount
        /\ (IsLoad(lastOp) => status' = "HALTED" /\ stepCount' = 0)]_vars

\* C3 witness: the first step after a load found no rule
C3_Witness ==
    /\ IsStep(lastOp) /\ lastOp.outcome = "halted" /\ lastOp.from = "IDLE"
    /\ status = "HALTED" /\ stepCount = 0 /\ Len(logs) = 1

\* C4: without a reset or load, stepCount never decreases, grows by exactly 1
\* on a step that applies a rule and stays on a step that discovers the halt.
C4_StepCount ==
    [][~IsLoad(lastOp') =>
        /\ stepCount' >= stepCount
        /\ (IsStep(lastOp') /\ Matching # {} => stepCount' = stepCount + 1)
        /\ (IsStep(lastOp') /\ Matching = {} => stepCount' = stepCount)]_vars

\* C4 witness: a halting step after three applied steps
C4_Witness ==
    /\ IsStep(lastOp) /\ lastOp.outcome = "halted"
    /\ stepCount = 3

\* C5: in every reachable state the tape holds no entry whose value is the
\* blank symbol.
C5_NoBlankStored == \A p \in DOMAIN tape : tape[p] # "_"

\* C6: once status is HALTED it stays HALTED until a reset or load; start
\* never moves the controller from HALTED to RUNNING.
C6_HaltedTerminal ==
    [][status = "HALTED" => (status' = "HALTED" \/ IsLoad(lastOp'))]_vars

\* C7: a manual step requested while status is RUNNING or HALTED changes
\* neither the machine state nor the log.
C7_ManualStepRefused ==
    [][(IsStep(lastOp') /\ lastOp'.src = "manual"
            /\ status \in {"RUNNING", "HALTED"}) =>
        UNCHANGED <<tape, headPos, currentState, status, stepCount, logs>>]_vars

\* C8: pause moves RUNNING to PAUSED and cancels the pending timer; after a
\* pause, for as long as the controller stays PAUSED, no interval is armed,
\* no timer-driven step executes, and tape, head, state and stepCount are
\* changed by nothing but a manual step; start itself changes none of them.
C8_Pause ==
    [][/\ (lastOp'.op = "pause" =>
              /\ status = "RUNNING" /\ status' = "PAUSED"
              /\ DOMAIN timers' = {} /\ workerRef' = 0)
       /\ (status' = "PAUSED" => DOMAIN timers' = {})
       /\ (status = "PAUSED" => ~(IsStep(lastOp') /\ lastOp'.src = "timer"))
       /\ (status = "PAUSED" /\ status' = "PAUSED" =>
              \/ IsStep(lastOp') /\ lastOp'.src = "manual"
              \/ UNCHANGED <<tape, headPos, currentState, stepCount>>)
       /\ (status = "PAUSED" /\ lastOp'.op = "start" =>
              UNCHANGED <<tape, headPos, currentState, stepCount>>)]_vars

\* C8 witness: a run of timer-driven steps has been paused
C8_Witness ==
    /\ lastOp.op = "pause" /\ status = "PAUSED"
    /\ stepCount > 0 /\ NoTimerArmed

\* C9: a timer-driven step that discovers the halt while RUNNING commits
\* status HALTED (not PAUSED), cancels the timer, and no timer-driven step
\* executes afterwards while the machine is HALTED.
C9_TimerHalt ==
    [][/\ (IsStep(lastOp') /\ lastOp'.src = "timer" /\ Matching = {}
             /\ status = "RUNNING") =>
              status' = "HALTED" /\ DOMAIN timers' = {} /\ workerRef' = 0
       /\ (status = "HALTED" =>
              DOMAIN timers = {} /\ ~(IsStep(lastOp') /\ lastOp'.src = "timer"))]_vars

\* C9 witness: a timer-driven step has discovered the halt of a run
C9_Witness ==
    /\ IsStep(lastOp) /\ lastOp.src = "timer" /\ lastOp.outcome = "halted"
    /\ lastOp.from = "RUNNING" /\ status = "HALTED" /\ stepCount > 0

\* C10: a reset or a load (preset, math program, generated program), from
\* any status, leaves status IDLE, the tape that reads character i of the
\* initial tape string at position i and has no other entry, headPosition 0,
\* currentState the initial state, stepCount 0, an empty log, and no final
\* output and no interpretation.
C10_ResetLoad ==
    IsLoad(lastOp) =>
        /\ status = "IDLE"
        /\ DOMAIN tape = 0..(Len(initialTapeStr) - 1)
        /\ \A i \in DOMAIN tape : tape[i] = initialTapeStr[i + 1]
        /\ headPos = 0
        /\ currentState = initialStateStr
        /\ stepCount = 0
        /\ logs = << >>
        /\ finalOutput = << >>
        /\ interpretedResult.kind = "null"
        /\ (lastOp.op = "loadPreset" =>
              \E i \in 1..Len(PRESETS) :
                  /\ initialTapeStr = PRESETS[i].initialTape
                  /\ initialStateStr = PRESETS[i].initialState
                  /\ rules = PRESETS[i].rules)
        /\ (lastOp.op = "aiLoad" =>
              \E g \in GenPrograms :
                  /\ initialTapeStr = g.initialTape
                  /\ initialStateStr = g.initialState
                  /\ rules = g.rules)

\* C10 witness: a reset issued while the machine was RUNNING
C10_Witness ==
    /\ lastOp.op = "reset" /\ lastOp.from = "RUNNING"
    /\ initialTapeStr # << >>

\* C11: at most one interval is armed, one is armed only while status is
\* RUNNING (and it is the one the ref holds); a firing of the interval runs
\* one step (one log entry, stepCount up by at most one), and afterwards an
\* interval is armed exactly when that step applied a rule, and then it is
\* a new interval; after a halting step and after a pause none is armed.
C11_OneTimer ==
    [][/\ Cardinality(DOMAIN timers') <= 1
       /\ (DOMAIN timers' # {} =>
              status' = "RUNNING" /\ DOMAIN timers' = {workerRef'})
       /\ (IsStep(lastOp') /\ lastOp'.src = "timer" =>
              /\ Len(logs') = Len(logs) + 1
              /\ stepCount' \in {stepCount, stepCount + 1}
              /\ (DOMAIN timers' # {} <=> lastOp'.outcome = "applied")
              /\ (lastOp'.outcome = "applied" =>
                     status' = "RUNNING" /\ workerRef' # workerRef)
              /\ (lastOp'.outcome = "halted" => workerRef' = NO_TIMER))
       /\ (lastOp'.op = "pause" => DOMAIN timers' = {})]_vars

\* C11 witness: the interval fired twice and is armed again
C11_Witness ==
    /\ IsStep(lastOp) /\ lastOp.src = "timer" /\ lastOp.outcome = "applied"
    /\ stepCount = 2 /\ Len(logs) = 2
    /\ status = "RUNNING" /\ Cardinality(DOMAIN timers) = 1

C13_LoadCancelsTimer ==
    [][/\ (IsLoad(lastOp') =>
              /\ status' = "IDLE"
              /\ DOMAIN timers' = {}
              /\ workerRef' = NO_TIMER)
       /\ (status = "IDLE" => ~(IsStep(lastOp') /\ lastOp'.src = "timer"))
       /\ (status' = "IDLE" => DOMAIN timers' = {})
       /\ (DOMAIN timers = {} /\ DOMAIN timers' # {} =>
              lastOp'.op = "start")]_vars

\* C13 witness: a generated program arrived while the machine was RUNNING
C13_Witness ==
    /\ lastOp.op = "aiLoad" /\ lastOp.outcome = "done"
    /\ lastOp.from = "RUNNING"
    /\ rules = GenDuplicate.rules /\ stepCount = 0

\* C15: start, pause, adding, deleting or saving a rule and switching the
\* mode leave tape, head position, state and stepCount unchanged; more
\* generally every handler that is neither a step nor a reset or completed
\* load leaves them unchanged.
C15_OnlyStepMoves ==
    [][/\ (lastOp'.op \in {"start", "pause", "addRule", "deleteRule",
                            "saveEdit", "setMode"} =>
              UNCHANGED <<tape, headPos, currentState, stepCount>>)
       /\ (~IsStep(lastOp') /\ ~IsLoad(lastOp') =>
              UNCHANGED <<tape, headPos, currentState, stepCount>>)]_vars

\* C15 witness: a rule was edited in the middle of a run
C15_Witness ==
    /\ lastOp.op \in {"addRule", "deleteRule", "saveEdit"}
    /\ lastOp.from = "RUNNING"
    /\ stepCount = 2 /\ headPos # 0

\* C16: every step, the one that finds no rule included, appends exactly one
\* entry to the log and changes no earlier entry; the entry holds the
\* stepCount before the step plus one, the state before the step, and the
\* serialization of the tape as it was before the step wrote.
C16_LogEntry ==
    [][IsStep(lastOp') =>
          /\ Len(logs') = Len(logs) + 1
          /\ SubSeq(logs', 1, Len(logs)) = logs
          /\ logs'[Len(logs')].step = stepCount + 1
          /\ logs'[Len(logs')].state = currentState
          /\ logs'[Len(logs')].tapeSnippet = getTapeString(tape)]_vars

\* C16 witness: a halting step after two applied ones logged entry 3, and
\* the applied step before it logged a tape the step then changed
C16_Witness ==
    /\ IsStep(lastOp) /\ lastOp.outcome = "halted"
    /\ stepCount = 2 /\ Len(logs) = 3
    /\ logs[3].step = 3
    /\ logs[2].tapeSnippet # logs[3].tapeSnippet

\* C17: the step numbers of the log are strictly increasing in the order of
\* the entries, so no two entries carry the same number.
C17_LogStrictlyIncreasing ==
    \A i, j \in 1..Len(logs) : i < j => logs[i].step < logs[j].step

\* C18: the log is capacity-bounded: it never holds more than a fixed number
\* N of entries, the oldest being dropped when a step is logged at capacity.
\* The code names no N; the property is stated for N = MaxLog - 1, the
\* largest capacity the bound of the model on the log can exceed, and it
\* fails in the same way for every value of MaxLog.
C18_LogBounded == Len(logs) <= MaxLog - 1

-----------------------------------------------------------------------------
(* The tape store on its own: every tape over a window of positions, built
   by the two updates the application makes to the tape state, the write of
   one cell (inside step, at whatever position the head has) and the
   replacement by a parsed string (inside resetMachine, here with the
   initial tape of a generated program, which can be any string) *)

MaxPos == 2        \* cells written lie in -MaxPos..MaxPos
MaxStrLen == 2     \* longest string parsed

TapeSymbols == {"0", "1", EMPTY_SYMBOL}

TapeStrings ==
    UNION {[1..n -> TapeSymbols] : n \in 0..MaxStrLen}

\* setTape(prev => ...) of step, for any head position and written symbol
WriteTape(pos, sym) ==
    /\ tape' = WriteCell(tape, pos, sym)
    /\ UNCHANGED <<headPos, currentState, status, stepCount, rules,
                   initialTapeStr, initialStateStr, mode, logs, finalOutput,
                   interpretedResult, activeRuleIndex, workerRef, timers,
                   isAiLoading, edits>>
    /\ lastOp' = Op("write", "user", "done")

\* setInitialTapeStr(result.initialTape) and, in resetMachine,
\* setTape(parseTapeString(tapeStr))
LoadTape(str) ==
    /\ initialTapeStr' = str
    /\ tape' = parseTapeString(str)
    /\ UNCHANGED <<headPos, currentState, status, stepCount, rules,
                   initialStateStr, mode, logs, finalOutput,
                   interpretedResult, activeRuleIndex, workerRef, timers,
                   isAiLoading, edits>>
    /\ lastOp' = Op("aiLoad", "collaborator", "done")

TapeNext ==
    \/ \E pos \in (-MaxPos)..MaxPos, sym \in TapeSymbols : WriteTape(pos, sym)
    \/ \E str \in TapeStrings : LoadTape(str)

TapeSpec == Init /\ [][TapeNext]_vars

\* The positions the properties of the tape store look at: every position
\* a tape of TapeSpec has, and as many blank ones on either side as a
\* serialization can shift a cell
Window == (-(2 * MaxPos + MaxStrLen + 1))..(2 * MaxPos + MaxStrLen + 1)

NonBlankCells(t) == {p \in DOMAIN t : t[p] # "" /\ t[p] # "_"}

\* The rendered range [min key, max key] starts and ends on a non-blank cell
EndsNonBlank(t) ==
    /\ DOMAIN t # {}
    /\ \A p \in DOMAIN t : \E lo, hi \in NonBlankCells(t) : lo <= p /\ p <= hi

FirstCell(t) == CHOOSE p \in NonBlankCells(t) : \A q \in NonBlankCells(t) : p <= q

\* C20 as claimed: a tape whose serialization starts and ends on a non-blank
\* cell is read back unchanged, at every position, from the parse of its
\* serialization.
C20_RoundTripSamePosition ==
    EndsNonBlank(tape) =>
        \A p \in Window :
            ReadCell(parseTapeString(getTapeString(tape)), p) = ReadCell(tape, p)

\* C20: for a tape whose serialization starts and ends on a non-blank cell,
\* the parse of the serialization reads at position p what the tape reads at
\* position p + m, m being the position of the first non-blank cell of the
\* tape; it reads the same symbol as the tape at every position when m = 0.
\* This holds for every tape that has a non-blank cell, trimmed or not.
C20_RoundTrip ==
    NonBlankCells(tape) # {} =>
        LET back == parseTapeString(getTapeString(tape))
            m == FirstCell(tape)
        IN  /\ \A p \in Window : ReadCell(back, p) = ReadCell(tape, p + m)
            /\ DOMAIN back \subseteq Window
            /\ \A p \in DOMAIN tape : p + m \in Window /\ p - m \in Window
            /\ (m = 0 => \A p \in Window : ReadCell(back, p) = ReadCell(tape, p))

\* C20 witness: a tape with its first cell at 0 and a blank gap inside, so
\* that its serialization starts and ends on a non-blank cell
C20_Witness ==
    /\ DOMAIN tape = {0, 2}
    /\ NonBlankCells(tape) = {0, 2}
    /\ EndsNonBlank(tape)
    /\ getTapeString(tape) = <<tape[0], "_", tape[2]>>

-----------------------------------------------------------------------------
(* A run left alone: a program is loaded, stepped by hand or not, and
   started; while it is RUNNING only the interval acts: no pause, no reset,
   no load (the Step Forward button is disabled).  The interval of a RUNNING
   machine fires every `speed` milliseconds, which is weak fairness of
   TimerFire. *)

\* The programs a load can install: the presets of the selector, the math
\* programs of the operand pairs that do not throw, the generated programs
LoadedPrograms ==
    {[rules |-> FindPreset(n)[1].rules,
      initialTape |-> FindPreset(n)[1].initialTape,
      initialState |-> FindPreset(n)[1].initialState,
      mode |-> "standard", op |-> "loadPreset", src |-> "user",
      input |-> << >>] :
        n \in SelectablePresets}
    \cup
    {[rules |-> FindPreset(IF mathOp = "+" THEN "Unary Addition"
                           ELSE "Unary Subtraction")[1].rules,
      initialTape |-> Repeat1(ab[1]) \o <<mathOp>> \o Repeat1(ab[2]),
      initialState |-> FindPreset(IF mathOp = "+" THEN "Unary Addition"
                                  ELSE "Unary Subtraction")[1].initialState,
      mode |-> "math", op |-> "mathLoad", src |-> "user",
      input |-> <<ab[1], ab[2], mathOp>>] :
        ab \in {x \in MathOperands : x[1] >= 0 /\ x[2] >= 0},
        mathOp \in {"+", "-"}}
    \cup
    {[rules |-> g.rules, initialTape |-> g.initialTape,
      initialState |-> g.initialState,
      mode |-> "standard", op |-> "aiLoad", src |-> "collaborator",
      input |-> << >>] :
        g \in GenPrograms}

\* The state a load of program p leaves when it is issued from an IDLE
\* machine; history is what the observer has recorded
Loaded(p, history) ==
    /\ tape = parseTapeString(p.initialTape)
    /\ headPos = 0
    /\ currentState = p.initialState
    /\ status = "IDLE"
    /\ stepCount = 0
    /\ rules = p.rules
    /\ initialTapeStr = p.initialTape
    /\ initialStateStr = p.initialState
    /\ mode = p.mode
    /\ logs = << >>
    /\ finalOutput = << >>
    /\ interpretedResult = InterpNull
    /\ activeRuleIndex = NULL_INDEX
    /\ workerRef = NO_TIMER
    /\ timers = NoTimers
    /\ isAiLoading = FALSE
    /\ edits = 0
    /\ lastOp = [op |-> p.op, src |-> p.src, outcome |-> "done",
                 from |-> "IDLE", input |-> p.input, seen |-> history]

LiveInit == \E p \in LoadedPrograms : Loaded(p, NotTracking)

LiveNext ==
    \/ ManualStep
    \/ startMachine
    \/ TimerFire

LiveSpec == LiveInit /\ [][LiveNext]_vars /\ WF_vars(TimerFire)

\* C14: while status is RUNNING and nothing but the interval acts, timer
\* steps keep coming: a RUNNING machine reaches HALTED or the step or log
\* bound of the model; the generated program GenDuplicate, which halts
\* after three steps, reaches HALTED; Ping Pong, which never halts, is
\* never HALTED and reaches every step count up to the bound.
C14_TimerKeepsStepping ==
    /\ (status = "RUNNING") ~>
           (status = "HALTED" \/ stepCount = MaxSteps \/ Len(logs) = MaxLog)
    /\ (status = "RUNNING" /\ rules = GenDuplicate.rules /\ Len(logs) < MaxLog)
           ~> (status = "HALTED")
    /\ \A n \in 0..MaxSteps :
           (status = "RUNNING" /\ rules = PingPong.rules /\ stepCount <= n)
               ~> (stepCount = n)
    /\ [](rules = PingPong.rules => status # "HALTED")

\* C14 witness: the run of GenDuplicate has halted on a timer step
C14_Witness ==
    /\ rules = GenDuplicate.rules
    /\ IsStep(lastOp) /\ lastOp.src = "timer" /\ lastOp.outcome = "halted"
    /\ lastOp.from = "RUNNING" /\ status = "HALTED" /\ stepCount = 3

-----------------------------------------------------------------------------
(* Replay: a program is loaded and run, by the Step Forward button or by
   the interval, with pauses or without; Reset starts the same program
   again from the same initial tape and state.  The history keeps the
   machine state every step, load and reset has left, with the number of
   steps executed since the load or the reset, so that one behaviour holds
   the runs the determinism of step compares. *)

DetInit == \E p \in LoadedPrograms : Loaded(p, Tracking)

DetNext ==
    \/ ManualStep
    \/ TimerFire
    \/ startMachine
    \/ stopMachine
    \/ resetMachine

DetSpec == DetInit /\ [][DetNext]_vars

C21_Serialization ==
    LET s == getTapeString(tape)
        cells == NonBlankCells(tape)
    IN  IF cells = {} THEN s = << >>
        ELSE LET lo == CHOOSE p \in cells : \A q \in cells : p <= q
                 hi == CHOOSE p \in cells : \A q \in cells : q <= p
             IN  /\ Len(s) = hi - lo + 1
                 /\ \A k \in 1..Len(s) :
                        s[k] = (IF lo + k - 1 \in DOMAIN tape
                                THEN tape[lo + k - 1] ELSE "_")
                 /\ s[1] # "_"
                 /\ s[Len(s)] # "_"

\* C21 witness: a tape with a cell at a negative position, a gap, and a
\* stored blank as its last entry, which the serialization trims
C21_Witness ==
    /\ NonBlankCells(tape) = {-2, 0}
    /\ DOMAIN tape = {-2, 0, 1}
    /\ getTapeString(tape) = <<tape[-2], "_", tape[0]>>

\* C22: the tape parsed from a string s of length n reads character i of s
\* at every position i in 0..n-1 and the blank at every other position.
C22_Parse ==
    IsLoad(lastOp) =>
        \A p \in Window :
            ReadCell(tape, p) =
                (IF 0 <= p /\ p < Len(initialTapeStr)
                 THEN initialTapeStr[p + 1] ELSE "_")

\* C22 witness: a string of two different symbols, one of them the blank,
\* was parsed
C22_Witness ==
    /\ IsLoad(lastOp) /\ lastOp.op = "aiLoad"
    /\ Len(initialTapeStr) = 2
    /\ initialTapeStr[1] = "_" /\ initialTapeStr[2] # "_"
    /\ DOMAIN tape = {0, 1}

\* C23: a math load with operands a, b >= 0 and operator op leaves the
\* initial tape string a times '1', op, b times '1', the tape that reads it
\* from position 0, the rules and the initial state of the Unary Addition
\* preset for '+' and of the Unary Subtraction preset for '-', status IDLE,
\* the head at 0 and stepCount 0.
C23_MathEncode ==
    lastOp.op = "mathLoad" /\ lastOp.outcome = "done" =>
        LET a == lastOp.input[1]
            b == lastOp.input[2]
            op == lastOp.input[3]
            name == IF op = "+" THEN "Unary Addition" ELSE "Unary Subtraction"
        IN  /\ a >= 0 /\ b >= 0 /\ op \in {"+", "-"}
            /\ Len(initialTapeStr) = a + b + 1
            /\ \A i \in 1..a : initialTapeStr[i] = "1"
            /\ initialTapeStr[a + 1] = op
            /\ \A i \in (a + 2)..(a + b + 1) : initialTapeStr[i] = "1"
            /\ DOMAIN tape = 0..(a + b)
            /\ \A i \in DOMAIN tape : tape[i] = initialTapeStr[i + 1]
            /\ \E i \in 1..Len(PRESETS) :
                   /\ PRESETS[i].name = name
                   /\ rules = PRESETS[i].rules
                   /\ initialStateStr = PRESETS[i].initialState
                   /\ currentState = PRESETS[i].initialState
            /\ status = "IDLE" /\ headPos = 0 /\ stepCount = 0
            /\ mode = "math"

\* C23 witness: 1 - 0 was loaded while another program was RUNNING
C23_Witness ==
    /\ lastOp.op = "mathLoad" /\ lastOp.outcome = "done"
    /\ lastOp.input = <<1, 0, "-">>
    /\ lastOp.from = "RUNNING"
    /\ initialTapeStr = <<"1", "-">>

\* C24: a math load completes normally whatever the operands, a negative
\* operand counting as zero repetitions of '1'.
C24_NegativeClamps ==
    lastOp.op = "mathLoad" => lastOp.outcome = "done"

-----------------------------------------------------------------------------
(* The interpretation at halt on its own: the collaborator returns a
   program without rules and with any initial tape, so that the first step
   halts on that tape, in either mode *)

InterpSymbols == {"1", EMPTY_SYMBOL, "0", "Y", "N"}

\* Generated programs that halt at once on an arbitrary tape
HaltPrograms ==
    {[initialTape |-> str, initialState |-> "start", rules |-> << >>] :
        str \in UNION {[1..n -> InterpSymbols] : n \in 0..MaxStrLen}}

HaltNext ==
    \/ handleAiGenerate
    \/ \E result \in HaltPrograms : AiResolved(result)
    \/ \E m \in {"standard", "math"} : setMode(m)
    \/ ManualStep

HaltSpec == Init /\ [][HaltNext]_vars

\* The step that ran last found no rule
JustHalted == IsStep(lastOp) /\ lastOp.outcome = "halted"

C26_StandardVerdict ==
    JustHalted /\ mode = "standard" =>
        LET f == getTapeString(tape)
            hasY == \E i \in 1..Len(f) : f[i] = "Y"
            hasN == \E i \in 1..Len(f) : f[i] = "N"
        IN  /\ (hasY => interpretedResult.kind = "Accepted (True)")
            /\ (hasN /\ ~hasY => interpretedResult.kind = "Rejected (False)")
            /\ (~hasN /\ ~hasY => interpretedResult.kind = "null")

\* C26 witness: a halt in standard mode on a tape with 'N' before 'Y'
C26_Witness ==
    /\ JustHalted /\ mode = "standard"
    /\ getTapeString(tape) = <<"N", "Y">>
    /\ interpretedResult.kind = "Accepted (True)"

\* C27: a generation that fails (the request throws, the response has no
\* text, or the text does not parse) ends in the catch branch, which reports
\* the error, and leaves the rules, the tape, the head position, the state,
\* the status, stepCount and the log as they were, together with the
\* initial strings, the mode, the results and the interval; only the
\* loading flag is cleared.
C27_FailedGeneration ==
    [][lastOp'.op = "aiLoad" /\ lastOp'.outcome = "threw" =>
          /\ UNCHANGED <<rules, tape, headPos, currentState, status,
                         stepCount, logs>>
          /\ UNCHANGED <<initialTapeStr, initialStateStr, mode, finalOutput,
                         interpretedResult, activeRuleIndex, workerRef,
                         timers, edits>>
          /\ isAiLoading /\ ~isAiLoading']_vars

\* C27 witness: a generation failed while a program was RUNNING
C27_Witness ==
    /\ lastOp.op = "aiLoad" /\ lastOp.outcome = "threw"
    /\ lastOp.from = "RUNNING" /\ status = "RUNNING"
    /\ stepCount > 0 /\ rules # << >> /\ logs # << >>

-----------------------------------------------------------------------------
(* Runs of the preset programs on their inputs: the Binary Increment and
   Palindrome Detector rules on every binary string up to MaxBits symbols
   (the preset's own tape, or a generated program with the same rules),
   the two math programs on every pair of operands up to MaxOperand, and
   Ping Pong.  A run is left alone: Step Forward, start, pause and the
   interval only. *)

MaxBits == 4        \* longest binary input
MaxOperand == 3     \* largest operand of a math program
MaxRunSteps == 60   \* applied steps of a run; the halting runs are shorter

RunLog == MaxRunSteps + 1

BinaryStrings == UNION {[1..n -> {"0", "1"}] : n \in 0..MaxBits}

RunPrograms ==
    {[rules |-> preset.rules, initialTape |-> str,
      initialState |-> preset.initialState,
      mode |-> "standard",
      op |-> IF str = preset.initialTape THEN "loadPreset" ELSE "aiLoad",
      src |-> IF str = preset.initialTape THEN "user" ELSE "collaborator",
      input |-> << >>] :
        preset \in {BinaryIncrement, PalindromeDetector},
        str \in BinaryStrings}
    \cup
    {[rules |-> PingPong.rules, initialTape |-> PingPong.initialTape,
      initialState |-> PingPong.initialState,
      mode |-> "standard", op |-> "loadPreset", src |-> "user",
      input |-> << >>]}
    \cup
    {[rules |-> FindPreset(IF mathOp = "+" THEN "Unary Addition"
                           ELSE "Unary Subtraction")[1].rules,
      initialTape |-> Repeat1(a) \o <<mathOp>> \o Repeat1(b),
      initialState |-> FindPreset(IF mathOp = "+" THEN "Unary Addition"
                                  ELSE "Unary Subtraction")[1].initialState,
      mode |-> "math", op |-> "mathLoad", src |-> "user",
      input |-> <<a, b, mathOp>>] :
        a \in 0..MaxOperand, b \in 0..MaxOperand, mathOp \in {"+", "-"}}

RunInit == \E p \in RunPrograms : Loaded(p, NotTracking)

RunManualStep ==
    /\ StepButtonEnabled(status)
    /\ StepWithin(StepClosure, "manual", MaxRunSteps, RunLog)

RunTimerFire ==
    \E id \in DOMAIN timers : StepWithin(timers[id], "timer", MaxRunSteps, RunLog)

RunNext ==
    \/ RunManualStep
    \/ startMachine
    \/ stopMachine
    \/ RunTimerFire

RunSpec == RunInit /\ [][RunNext]_vars

\* Big-endian binary of v on w symbols
ToBits(v, w) ==
    [i \in 1..w |-> IF (v \div (2 ^ (w - i))) % 2 = 1 THEN "1" ELSE "0"]

\* The number a binary string denotes
BinValue(str) ==
    CHOOSE v \in 0..(2 ^ Len(str) - 1) : ToBits(v, Len(str)) = str

(* The runs of the Binary Increment rules alone, for the claim that they
   halt: the same actions as RunSpec, with the step bound just above the
   2 * MaxBits + 2 steps the longest of these runs applies. *)

MaxIncSteps == 2 * MaxBits + 3

IncLog == MaxIncSteps + 1

IncPrograms == {p \in RunPrograms : p.rules = BinaryIncrement.rules}

IncInit == \E p \in IncPrograms : Loaded(p, NotTracking)

IncManualStep ==
    /\ StepButtonEnabled(status)
    /\ StepWithin(StepClosure, "manual", MaxIncSteps, IncLog)

IncTimerFire ==
    \E id \in DOMAIN timers : StepWithin(timers[id], "timer", MaxIncSteps, IncLog)

IncNext ==
    \/ IncManualStep
    \/ startMachine
    \/ IncTimerFire

\* The interval fires every 500 ms while it is armed
IncSpec == IncInit /\ [][IncNext]_vars /\ WF_vars(IncTimerFire)

\* The run has halted, or the log has reached the bound of the model
RunEnds == status = "HALTED" \/ Len(logs) = IncLog

\* C28: a run of the Binary Increment rules from state start and head 0 on
\* a binary string of n symbols and value v halts, within 2n + 2 steps; at
\* the halt the serialized tape is the binary of v + 1 on n symbols,
\* lying at positions 0..n-1, or, when the input is all ones, on n + 1
\* symbols, the first of them at position -1.  1011 halts with 1100.
C28_BinaryIncrement ==
    /\ [](rules = BinaryIncrement.rules =>
             /\ stepCount <= 2 * Len(initialTapeStr) + 2
             /\ (JustHalted =>
                   LET n == Len(initialTapeStr)
                       v == BinValue(initialTapeStr)
                       w == IF v + 1 = 2 ^ n THEN n + 1 ELSE n
                       first == IF v + 1 = 2 ^ n THEN -1 ELSE 0
                   IN  /\ getTapeString(tape) = ToBits(v + 1, w)
                       /\ \A i \in 1..w :
                              ReadCell(tape, first + i - 1) = ToBits(v + 1, w)[i]
                       /\ (initialTapeStr = <<"1", "0", "1", "1">> =>
                              getTapeString(tape) = <<"1", "1", "0", "0">>)))
    /\ (status = "RUNNING" /\ rules = BinaryIncrement.rules) ~> RunEnds

\* C28 witness: the run on 1011, by the interval, has halted with 1100
C28_Witness ==
    /\ JustHalted /\ lastOp.src = "timer" /\ status = "HALTED"
    /\ rules = BinaryIncrement.rules
    /\ initialTapeStr = <<"1", "0", "1", "1">>
    /\ finalOutput = << <<"1", "1", "0", "0">> >>

\* The tape string of the math program for a, op, b
Encode(a, op, b) == [i \in 1..(a + b + 1) |-> IF i = a + 1 THEN op ELSE "1"]

\* C29: for all operands a, b >= 0 up to MaxOperand, the run of the program
\* loaded for a + b applies at most a + b + 3 steps, so it halts, and at
\* the halt the tape is a + b times '1' and the result reported is the
\* decimal value a + b.  3 + 2 gives 5.
C29_UnaryAddition ==
    \A a, b \in 0..MaxOperand :
        /\ rules = UnaryAddition.rules /\ mode = "math"
        /\ initialTapeStr = Encode(a, "+", b)
        => /\ stepCount <= a + b + 3
           /\ (JustHalted =>
                 /\ getTapeString(tape) = [i \in 1..(a + b) |-> "1"]
                 /\ interpretedResult.kind = "Decimal Value"
                 /\ interpretedResult.count = a + b)

\* C29 witness: the run of 3 + 2 has halted with the value 5
C29_Witness ==
    /\ JustHalted /\ status = "HALTED" /\ mode = "math"
    /\ rules = UnaryAddition.rules
    /\ initialTapeStr = <<"1", "1", "1", "+", "1", "1">>
    /\ interpretedResult.kind = "Decimal Value"
    /\ interpretedResult.count = 5

\* C30: for all operands a >= b >= 0 up to MaxOperand, the run of the
\* program loaded for a - b stays below the step bound of the model, so it
\* halts, and at the halt the serialized tape holds only '1' and blanks
\* and the result reported is the decimal value a - b.  3 - 2 gives 1.
C30_UnarySubtraction ==
    \A a, b \in 0..MaxOperand :
        /\ a >= b
        /\ rules = UnarySubtraction.rules /\ mode = "math"
        /\ initialTapeStr = Encode(a, "-", b)
        => /\ stepCount < MaxRunSteps
           /\ (JustHalted =>
                 /\ \A i \in 1..Len(getTapeString(tape)) :
                        getTapeString(tape)[i] \in {"1", "_"}
                 /\ Cardinality({p \in DOMAIN tape : tape[p] = "1"}) = a - b
                 /\ interpretedResult.kind = "Decimal Value"
                 /\ interpretedResult.count = a - b)

\* C30 witness: the run of 3 - 2 has halted with the value 1
C30_Witness ==
    /\ JustHalted /\ status = "HALTED" /\ mode = "math"
    /\ rules = UnarySubtraction.rules
    /\ initialTapeStr = <<"1", "1", "1", "-", "1", "1">>
    /\ interpretedResult.kind = "Decimal Value"
    /\ interpretedResult.count = 1

\* A string that reads the same from both ends
IsPalindrome(str) == \A i \in 1..Len(str) : str[i] = str[Len(str) + 1 - i]

\* Some cell of the tape holds 'Y'
TapeHasY == \E p \in DOMAIN tape : tape[p] = "Y"

\* C31: a run of the Palindrome Detector rules from state start and head 0
\* on a binary string of n symbols applies at most (n + 1)(n + 2) / 2
\* steps, so it halts, and at the halt the tape holds a 'Y' exactly when
\* the input is a palindrome.  1001 halts with a 'Y' on the tape.
C31_Palindrome ==
    rules = PalindromeDetector.rules =>
        /\ stepCount <= ((Len(initialTapeStr) + 1) * (Len(initialTapeStr) + 2)) \div 2
        /\ (JustHalted =>
              /\ TapeHasY <=> IsPalindrome(initialTapeStr)
              /\ Contains(finalOutput[1], "Y") <=> IsPalindrome(initialTapeStr))

\* C31 witness: the run on 1001 has halted with a 'Y' on the tape
C31_Witness ==
    /\ JustHalted /\ status = "HALTED"
    /\ rules = PalindromeDetector.rules
    /\ initialTapeStr = <<"1", "0", "0", "1">>
    /\ TapeHasY

\* C32: in standard mode the interpretation set when the Palindrome
\* Detector halts is Accepted for a palindrome and Rejected for any other
\* input.
C32_PalindromeVerdict ==
    (JustHalted /\ rules = PalindromeDetector.rules /\ mode = "standard") =>
        interpretedResult = IF IsPalindrome(initialTapeStr)
                            THEN InterpAccepted ELSE InterpRejected

\* The Ping Pong preset as loaded: its rules on its own tape
RunsPingPong ==
    rules = PingPong.rules /\ initialTapeStr = PingPong.initialTape

\* C33: the Ping Pong preset never reaches HALTED: in every state of a run
\* of up to MaxRunSteps steps some rule matches the state and the symbol
\* under the head, the status is not HALTED, and once the run is RUNNING or
\* PAUSED the next status is RUNNING or PAUSED.
C33_PingPongNeverHalts ==
    /\ [](RunsPingPong =>
            /\ Matching # {}
            /\ status \in {"IDLE", "RUNNING", "PAUSED"}
            /\ finalOutput = << >>)
    /\ [][(RunsPingPong /\ status \in {"RUNNING", "PAUSED"})
            => status' \in {"RUNNING", "PAUSED"}]_vars

\* C33 witness: the preset has applied all the steps the model allows, one
\* log entry each, has been paused, and has not halted
C33_Witness ==
    /\ RunsPingPong
    /\ stepCount = MaxRunSteps
    /\ status = "PAUSED"
    /\ \A i \in 1..Len(logs) : logs[i].step = i

\* C34: at every step of a run of the Ping Pong preset from its initial
\* configuration the head is at one of the positions 0..8, the span
\* between the two '1' of 1_0_0_0_1.
C34_HeadWithinSpan ==
    RunsPingPong => headPos \in 0..(Len(PingPong.initialTape) - 1)

\* C35: every program loaded by the math translator terminates, for both
\* operators and all operands: its run halts before it has applied the
\* MaxRunSteps steps the model allows (the halting runs of C29 and C30
\* stay below that bound).
C35_MathTerminates ==
    mode = "math" => stepCount < MaxRunSteps

\* C36: whenever status is IDLE the machine is in its freshly loaded
\* configuration: no step counted, empty log, the tape is the parse of the
\* initial tape, the head is at 0 and the state is the initial state.
C36_IdleIsFresh ==
    status = "IDLE" =>
        /\ stepCount = 0
        /\ logs = << >>
        /\ tape = parseTapeString(initialTapeStr)
        /\ headPos = 0
        /\ currentState = initialStateStr

\* No step since the last reset or load has discovered a halt: the final
\* output is set by the halting step and cleared by resetMachine only
NoHaltYet == finalOutput = << >>

\* C37: from any reset or load, as long as no step has discovered a halt
\* the log has stepCount entries and entry k carries step number k; the
\* first halting step leaves a log of stepCount + 1 entries.
C37_LogTracksSteps ==
    /\ [](NoHaltYet =>
            /\ Len(logs) = stepCount
            /\ \A k \in 1..Len(logs) : logs[k].step = k)
    /\ [][(NoHaltYet /\ ~NoHaltYet') => Len(logs') = stepCount' + 1]_vars

\* C37 witness: a run has applied two steps and then halted, for the first
\* time since its load
C37_Witness ==
    /\ JustHalted
    /\ stepCount = 2
    /\ Len(logs) = 3
    /\ \A k \in 1..3 : logs[k].step = k

\* C38: the final output and the interpretation are present exactly when
\* status is HALTED (they are null while it is IDLE, RUNNING or PAUSED),
\* and a final output that is present is the serialization of the current
\* tape.
C38_OutputIffHalted ==
    /\ finalOutput # << >> <=> status = "HALTED"
    /\ interpretedResult # InterpNull <=> status = "HALTED"
    /\ finalOutput # << >> => finalOutput[1] = getTapeString(tape)

-----------------------------------------------------------------------------
(* The parse of a string and its serialization: the tape is replaced by the
   parse of every string of up to MaxParseLen symbols, as resetMachine does
   with the initial tape of a generated program *)

MaxParseLen == 5    \* longest string parsed and serialized again

ParseStrings ==
    UNION {[1..n -> TapeSymbols] : n \in 0..MaxParseLen}

ParseNext == \E str \in ParseStrings : LoadTape(str)

ParseSpec == Init /\ [][ParseNext]_vars

\* The blank symbols a string starts with, and those it ends with
LeadingBlanks(s) ==
    Cardinality({i \in 1..Len(s) : \A k \in 1..i : s[k] = EMPTY_SYMBOL})

TrailingBlanks(s) ==
    Cardinality({i \in 1..Len(s) : \A k \in i..Len(s) : s[k] = EMPTY_SYMBOL})

\* C39: the serialization of the parse of a string s is s without its
\* leading and trailing blank symbols (the empty string when s is all
\* blanks), and so s itself when s neither starts nor ends with a blank.
C39_SerializeParse ==
    IsLoad(lastOp) =>
        LET s == initialTapeStr
            r == getTapeString(tape)
        IN  /\ tape = parseTapeString(s)
            /\ r = IF LeadingBlanks(s) = Len(s) THEN << >>
                   ELSE SubSeq(s, LeadingBlanks(s) + 1, Len(s) - TrailingBlanks(s))
            /\ (s = << >> \/ (s[1] # EMPTY_SYMBOL /\ s[Len(s)] # EMPTY_SYMBOL))
                   => r = s

\* C39 witness: _1_0_ has been parsed and is serialized as 1_0
C39_Witness ==
    /\ IsLoad(lastOp)
    /\ initialTapeStr = <<"_", "1", "_", "0", "_">>
    /\ getTapeString(tape) = <<"1", "_", "0">>

-----------------------------------------------------------------------------
(* The pause routine on its own: stopMachine() called in any status, as
   resetMachine, handleMathTranslate and the halting step call it, between
   loads, steps and starts *)

\* stopMachine(), whatever the status
stopMachineCall ==
    /\ status' = PausedIfRunning(status)
    /\ UNCHANGED <<tape, headPos, currentState, stepCount, rules,
                   initialTapeStr, initialStateStr, mode, logs, finalOutput,
                   interpretedResult, activeRuleIndex, isAiLoading,
                   edits>>
    /\ Commit(StopTimer(workerRef, timers), FALSE)
    /\ lastOp' = Op("pause", "routine", "done")

PauseNext ==
    \/ \E presetName \in SelectablePresets : loadPreset(presetName)
    \/ ManualStep
    \/ startMachine
    \/ TimerFire
    \/ stopMachineCall

PauseSpec == Init /\ [][PauseNext]_vars

\* C40: the pause routine called while status is IDLE, PAUSED or HALTED
\* leaves the status (and the timer) as it is, and called right after a
\* call of itself it changes nothing: twice is the same as once.
C40_PauseIdempotent ==
    [][lastOp'.op = "pause" =>
         /\ status # "RUNNING" =>
               /\ status' = status
               /\ workerRef' = workerRef /\ timers' = timers
         /\ status = "RUNNING" => status' = "PAUSED"
         /\ lastOp.op = "pause" =>
               UNCHANGED <<tape, headPos, currentState, status, stepCount,
                           rules, initialTapeStr, initialStateStr, mode, logs,
                           finalOutput, interpretedResult, activeRuleIndex,
                           workerRef, timers, isAiLoading, edits>>]_vars

\* C40 witness: the routine has been called while HALTED, and the status
\* is HALTED with the final output of the halt still set
C40_Witness ==
    /\ lastOp.op = "pause" /\ lastOp.src = "routine"
    /\ lastOp.from = "HALTED"
    /\ status = "HALTED"
    /\ finalOutput # << >>

====
